---- MODULE Spec2Model ----
(***************************************************************************)
(* Model of the iceberg chart explainer:                                   *)
(*   - clean_html_response (src/app.py), the model-output sanitizer;       *)
(*   - get_explanation (src/app.py), the /api/explain pipeline;            *)
(*   - migrate_data (src/migrate_to_supabase.py), the JSON-to-store        *)
(*     migration.                                                          *)
(* Text handled by the sanitizer is a sequence of characters.              *)
(***************************************************************************)
EXTENDS Integers, Sequences, FiniteSets, TLC

VARIABLES
    \* sanitizer harness
    inner, fenced, text, once, twice, sanPc,
    \* one /api/explain request
    pc, chart_name, entry_text,
    GEMINI_API_KEY, CUSTOM_SEARCH_API_KEY, CUSTOM_SEARCH_ENGINE_ID,
    qi, search_context, image_results, ii, image_url, calls, result,
    \* migration
    iceberg_charts, iceberg_layers, iceberg_entries, next_id, run, pending, skipped

sanVars == <<inner, fenced, text, once, twice, sanPc>>
reqVars == <<pc, chart_name, entry_text, GEMINI_API_KEY, CUSTOM_SEARCH_API_KEY,
             CUSTOM_SEARCH_ENGINE_ID, qi, search_context, image_results, ii,
             image_url, calls, result>>
migVars == <<iceberg_charts, iceberg_layers, iceberg_entries, next_id, run, pending, skipped>>
vars == <<sanVars, reqVars, migVars>>

\* Python's None.
None == "<None>"

(***************************************************************************)
(* Bounds                                                                  *)
(***************************************************************************)
\* number of text segments an enumerated model output is built from
MaxSegs == 4
\* number of items a text search returns (the request asks for num=3)
MaxItems == 2
\* number of image candidates the image search returns (the request asks for num=5)
MaxCands == 2
\* number of sequential runs of the migration
MaxRuns == 2

(***************************************************************************)
(* Character sequences                                                     *)
(***************************************************************************)
\* the backtick character (not writable inside a TLA+ string)
BT == "BACKTICK"
NL == "\n"
SP == " "

\* "```html\n", "```json\n" and "\n```": the literal parts of the two regexes
FenceOpenHtml == <<BT, BT, BT, "h", "t", "m", "l", NL>>
FenceOpenJson == <<BT, BT, BT, "j", "s", "o", "n", NL>>
FenceClose == <<NL, BT, BT, BT>>
Backticks == <<BT, BT, BT>>

\* does pat occur in s at position i
OccursAt(s, pat, i) ==
    /\ i >= 1
    /\ i + Len(pat) - 1 <= Len(s)
    /\ SubSeq(s, i, i + Len(pat) - 1) = pat

\* positions >= from at which pat occurs in s
Occurrences(s, pat, from) ==
    {i \in from..(Len(s) - Len(pat) + 1) : OccursAt(s, pat, i)}

Contains(s, pat) == Occurrences(s, pat, 1) # {}

SetMin(S) == CHOOSE m \in S : \A n \in S : m <= n
SetMax(S) == CHOOSE m \in S : \A n \in S : m >= n

\* characters str.strip() removes
Whitespace == {SP, NL, "\t", "\r"}

\* str.lstrip(): drop leading whitespace only
strip_leading_only(s) ==
    LET keep == {i \in 1..Len(s) : s[i] \notin Whitespace}
    IN  IF keep = {} THEN <<>> ELSE SubSeq(s, SetMin(keep), Len(s))

\* str.strip(): drop leading and trailing whitespace
strip(s) ==
    LET keep == {i \in 1..Len(s) : s[i] \notin Whitespace}
    IN  IF keep = {} THEN <<>> ELSE SubSeq(s, SetMin(keep), SetMax(keep))

\* the same search with a greedy group: it runs to the last "\n```"
re_search_greedy(open, s) ==
    LET starts == {i \in Occurrences(s, open, 1) :
                       Occurrences(s, FenceClose, i + Len(open)) # {}}
    IN  IF starts = {} THEN <<>>
        ELSE LET st == SetMin(starts)
                 g1 == st + Len(open)
                 en == SetMax(Occurrences(s, FenceClose, g1))
             IN  <<SubSeq(s, g1, en - 1)>>

\* re.search of the pattern: open, a lazy any-character group, "\n```"
\* (re.DOTALL). The match is at the leftmost position where open occurs and
\* a "\n```" follows it; the group is the shortest one. The result is
\* <<group>> for a match and <<>> for no match.
re_search(open, s) ==
    LET starts == {i \in Occurrences(s, open, 1) :
                       Occurrences(s, FenceClose, i + Len(open)) # {}}
    IN  IF starts = {} THEN <<>>
        ELSE LET st == SetMin(starts)
                 g1 == st + Len(open)
                 en == SetMin(Occurrences(s, FenceClose, g1))
             IN  <<SubSeq(s, g1, en - 1)>>

\* clean_html_response(text)
clean_html_response(s) ==
    LET match == re_search(FenceOpenHtml, s)
        match_json == re_search(FenceOpenJson, s)
    IN  IF match # <<>> THEN strip(match[1])
        ELSE IF match_json # <<>> THEN strip(match_json[1])
        ELSE s

(***************************************************************************)
(* Sanitizer harness: a raw model output is sanitized, and the result is   *)
(* sanitized again.                                                        *)
(***************************************************************************)
\* the pieces raw model outputs are built from
Segments == {FenceOpenHtml, FenceOpenJson, FenceClose, Backticks,
             <<NL>>, <<SP>>, <<"p">>}

RECURSIVE Flatten(_)
Flatten(ss) == IF ss = <<>> THEN <<>> ELSE Head(ss) \o Flatten(Tail(ss))

\* every concatenation of at most MaxSegs segments
Contents == {Flatten(ss) : ss \in UNION {[1..n -> Segments] : n \in 0..MaxSegs}}

\* c wrapped in an HTML fence: "```html\n" c "\n```"
WrapHtml(c) == FenceOpenHtml \o c \o FenceClose

SanIdle ==
    /\ inner = <<>> /\ fenced = FALSE /\ text = <<>>
    /\ once = <<>> /\ twice = <<>> /\ sanPc = "idle"

SanInit ==
    /\ inner \in Contents
    /\ fenced \in BOOLEAN
    /\ text = IF fenced THEN WrapHtml(inner) ELSE inner
    /\ once = <<>> /\ twice = <<>>
    /\ sanPc = "raw"

(***************************************************************************)
(* /api/explain: get_explanation                                           *)
(***************************************************************************)
\* a key a dict does not have
NoKey == "<no key>"

\* dict.get(key, default) on a field that may be missing
dict_get(v, default) == IF v = NoKey THEN default ELSE v

\* Python truthiness of an optional string
Truthy(v) == v # None /\ v # NoKey /\ v # ""

search_context_default == "Web search failed or returned no results."

\* all([chart_name, entry_text, GEMINI_API_KEY, CUSTOM_SEARCH_API_KEY,
\*      CUSTOM_SEARCH_ENGINE_ID]) with one of the keys left out
all_but_engine_id(cn, et, gk, sk, cx) ==
    Truthy(cn) /\ Truthy(et) /\ Truthy(gk) /\ Truthy(sk)

\* all([chart_name, entry_text, GEMINI_API_KEY, CUSTOM_SEARCH_API_KEY,
\*      CUSTOM_SEARCH_ENGINE_ID])
all_present(cn, et, gk, sk, cx) ==
    Truthy(cn) /\ Truthy(et) /\ Truthy(gk) /\ Truthy(sk) /\ Truthy(cx)

\* the three queries with the least specific one first
queries_lore_first(cn, et) ==
    << "\"" \o et \o "\" lore",
       "\"" \o et \o "\" meaning in \"" \o cn \o "\" iceberg chart",
       "\"" \o et \o "\" iceberg explanation" >>

\* queries_to_try
queries_to_try(cn, et) ==
    << "\"" \o et \o "\" meaning in \"" \o cn \o "\" iceberg chart",
       "\"" \o et \o "\" iceberg explanation",
       "\"" \o et \o "\" lore" >>

\* image_search_query
image_search_query(et) == "\"" \o et \o "\""

\* " ".join(snippets)
RECURSIVE join(_)
join(ss) ==
    IF ss = <<>> THEN ""
    ELSE IF Len(ss) = 1 THEN ss[1]
    ELSE ss[1] \o " " \o join(Tail(ss))

\* the prompt handed to the model
prompt(cn, et, ctx) ==
    "You are an expert explainer of internet culture. Provide a clear, concise explanation for the iceberg entry: '"
    \o et \o "' from the '" \o cn \o "' iceberg chart. Use this web search context: '"
    \o ctx \o "'. Format your response in simple HTML using paragraphs (<p>) and bold tags (<b>)."

\* What one HTTP request of the requests library can come back with:
\*   exc     the exception the call itself raised ("none": a response arrived)
\*   status  the response's status code
\*   json    "invalid": the body is not JSON; "array": JSON, but no object;
\*           "object": a JSON object
\*   items   the object's "items" list, when has_items (the search service
\*           leaves the key out when there are no results)
Reply(exc, status, json, has_items, items) ==
    [exc |-> exc, status |-> status, json |-> json,
     has_items |-> has_items, items |-> items]

SeqsUpTo(S, n) == UNION {[1..k -> S] : k \in 0..n}

\* items of a text search: the snippet may be missing
TextItems == [snippet : {NoKey, "alpha"}]
\* items of an image search: the link may be missing
ImageItems == [link : {NoKey, "http://u1", "http://u2"}]

Replies(Items, n) ==
    {Reply("ConnectionError", 0, "invalid", FALSE, <<>>),
     Reply("none", 404, "invalid", FALSE, <<>>),
     Reply("none", 200, "invalid", FALSE, <<>>),
     Reply("none", 200, "array", FALSE, <<>>),
     Reply("none", 200, "object", FALSE, <<>>)}
    \cup {Reply("none", 200, "object", TRUE, its) : its \in SeqsUpTo(Items, n)}

\* response.raise_for_status(): HTTPError for 4xx and 5xx
raise_for_status(r) == r.status >= 400 /\ r.status < 600

\* requests.get, raise_for_status and response.json() raise a
\* requests.exceptions.RequestException. An invalid JSON body raises one only
\* from requests 2.27 on (json_is_request_exception); before, it is a
\* ValueError.
raises_RequestException(r, json_is_request_exception) ==
    \/ r.exc # "none"
    \/ raise_for_status(r)
    \/ r.json = "invalid" /\ json_is_request_exception

\* any other exception: the ValueError above, or the AttributeError of
\* .get on a JSON value that is no object
raises_other(r, json_is_request_exception) ==
    /\ ~raises_RequestException(r, json_is_request_exception)
    /\ r.json # "object"

\* search_json.get('items', [])
items_of(r) == IF r.has_items THEN r.items ELSE <<>>

\* [item.get('snippet', '') for item in search_json.get('items', [])]
snippets_of(r) ==
    [i \in 1..Len(items_of(r)) |-> dict_get(items_of(r)[i].snippet, "")]

\* the test "if snippets:" read as "some snippet is not empty"
some_snippet_nonempty(snippets) == \E i \in 1..Len(snippets) : snippets[i] # ""

\* the test "if snippets:"
has_snippets(snippets) == snippets # <<>>

\* the probe test reading any status below 400 as success
head_not_error(status) == status < 400

\* head_response.status_code == 200
head_ok(status) == status = 200

\* the first candidate at or after position i that has a link ("if not link:
\* continue"); Len + 1 when there is none
next_candidate(results, i) ==
    LET C == {j \in i..Len(results) : Truthy(results[j].link)}
    IN  IF C = {} THEN Len(results) + 1 ELSE SetMin(C)

\* an outbound call: what was called, with what, and what the code took from
\* the answer (snippets or links found, the probe's status, 0 for an exception)
Call(call, arg, found, rank, status) ==
    [call |-> call, arg |-> arg, found |-> found, rank |-> rank, status |-> status]

\* the response of the endpoint: status and the JSON body's keys; an
\* exception that leaves get_explanation gives the framework's 500 page
NoResult == [status |-> 0, keys |-> {}, explanation |-> <<>>, image_url |-> None]
Response(status, keys, explanation, url) ==
    [status |-> status, keys |-> keys, explanation |-> explanation, image_url |-> url]

\* raw texts the model may answer with
ModelTexts ==
    {WrapHtml(<<"p">>),
     FenceOpenJson \o <<"p">> \o FenceClose,
     <<"p">>,
     Backticks \o <<NL, "p">> \o FenceClose}

ReqIdle ==
    /\ pc = "idle"
    /\ chart_name = None /\ entry_text = None
    /\ GEMINI_API_KEY = None /\ CUSTOM_SEARCH_API_KEY = None
    /\ CUSTOM_SEARCH_ENGINE_ID = None
    /\ qi = 0 /\ search_context = "" /\ image_results = <<>> /\ ii = 0
    /\ image_url = None /\ calls = <<>> /\ result = NoResult

\* the request as it arrives: data.get gives None for a missing field,
\* os.getenv gives None for an unset variable
ReqInit ==
    /\ pc = "start"
    /\ chart_name \in {None, "", "Conspiracy Iceberg"}
    /\ entry_text \in {None, "", "Flat Earth"}
    /\ GEMINI_API_KEY \in {None, "gk"}
    /\ CUSTOM_SEARCH_API_KEY \in {None, "sk"}
    /\ CUSTOM_SEARCH_ENGINE_ID \in {None, "cx"}
    /\ qi = 0 /\ search_context = "" /\ image_results = <<>> /\ ii = 0
    /\ image_url = None /\ calls = <<>> /\ result = NoResult

config == <<GEMINI_API_KEY, CUSTOM_SEARCH_API_KEY, CUSTOM_SEARCH_ENGINE_ID>>
request == <<chart_name, entry_text>>

\* lines 170-182: validation, then the defaults of the text stage
Validate ==
    /\ pc = "start"
    /\ IF ~all_present(chart_name, entry_text, GEMINI_API_KEY,
                       CUSTOM_SEARCH_API_KEY, CUSTOM_SEARCH_ENGINE_ID)
       THEN /\ result' = Response(400, {"error"}, <<>>, None)
            /\ pc' = "done"
            /\ UNCHANGED <<qi, search_context>>
       ELSE /\ search_context' = search_context_default
            /\ qi' = 1
            /\ pc' = "text"
            /\ UNCHANGED result
    /\ UNCHANGED <<request, config, image_results, ii, image_url, calls>>
    /\ UNCHANGED <<sanVars, migVars>>

\* lines 184-195: one iteration of the loop over queries_to_try
TextSearch ==
    /\ pc = "text"
    /\ \E r \in Replies(TextItems, MaxItems), json_is_request_exception \in BOOLEAN :
         LET query == queries_to_try(chart_name, entry_text)[qi]
             failed == raises_RequestException(r, json_is_request_exception)
             snippets == IF failed THEN <<>> ELSE snippets_of(r)
             last == qi = Len(queries_to_try(chart_name, entry_text))
         IN  IF raises_other(r, json_is_request_exception)
             THEN \* the exception leaves get_explanation
                  /\ calls' = Append(calls, Call("text_search", query, <<>>, qi, r.status))
                  /\ result' = Response(500, {}, <<>>, None)
                  /\ pc' = "done"
                  /\ UNCHANGED <<qi, search_context>>
             ELSE /\ calls' = Append(calls, Call("text_search", query, snippets, qi, r.status))
                  /\ UNCHANGED result
                  /\ IF ~failed /\ has_snippets(snippets)
                     THEN /\ search_context' = join(snippets)
                          /\ pc' = "image"
                          /\ UNCHANGED qi
                     ELSE /\ qi' = qi + 1
                          /\ pc' = IF last THEN "image" ELSE "text"
                          /\ UNCHANGED search_context
    /\ UNCHANGED <<request, config, image_results, ii, image_url>>
    /\ UNCHANGED <<sanVars, migVars>>

\* lines 197-203 and 215-216: the image search
ImageSearch ==
    /\ pc = "image"
    /\ \E r \in Replies(ImageItems, MaxCands), json_is_request_exception \in BOOLEAN :
         LET query == image_search_query(entry_text)
             failed == raises_RequestException(r, json_is_request_exception)
             found == IF failed THEN <<>> ELSE items_of(r)
             links == [i \in 1..Len(found) |-> found[i].link]
         IN  IF raises_other(r, json_is_request_exception)
             THEN /\ calls' = Append(calls, Call("image_search", query, <<>>, 0, r.status))
                  /\ result' = Response(500, {}, <<>>, None)
                  /\ pc' = "done"
                  /\ UNCHANGED <<image_results, ii>>
             ELSE /\ calls' = Append(calls, Call("image_search", query, links, 0, r.status))
                  /\ image_results' = found
                  /\ ii' = next_candidate(found, 1)
                  /\ pc' = IF next_candidate(found, 1) > Len(found) THEN "model" ELSE "probe"
                  /\ UNCHANGED result
    /\ image_url' = None
    /\ UNCHANGED <<request, config, qi, search_context>>
    /\ UNCHANGED <<sanVars, migVars>>

\* what requests.head(link, timeout=2) can come back with: an exception of
\* the requests library (status 0) or a status code; redirects are not followed
ProbeOutcomes ==
    {[exc |-> "Timeout", status |-> 0], [exc |-> "ConnectionError", status |-> 0],
     [exc |-> "none", status |-> 200], [exc |-> "none", status |-> 204],
     [exc |-> "none", status |-> 404]}

\* lines 205-214: the probe of one candidate
Probe ==
    /\ pc = "probe"
    /\ \E o \in ProbeOutcomes :
         LET link == image_results[ii].link
             nxt == next_candidate(image_results, ii + 1)
         IN  /\ calls' = Append(calls, Call("probe", link, <<>>, ii, o.status))
             /\ IF o.exc = "none" /\ head_ok(o.status)
                THEN /\ image_url' = link
                     /\ pc' = "model"
                     /\ UNCHANGED ii
                ELSE /\ ii' = nxt
                     /\ pc' = IF nxt > Len(image_results) THEN "model" ELSE "probe"
                     /\ UNCHANGED image_url
    /\ UNCHANGED <<request, config, qi, search_context, image_results, result>>
    /\ UNCHANGED <<sanVars, migVars>>

\* lines 218-231: the prompt, the model call, the response
Generate ==
    /\ pc = "model"
    /\ calls' = Append(calls, Call("generate_content",
                                   prompt(chart_name, entry_text, search_context),
                                   <<>>, 0, 0))
    /\ \/ \E raw \in ModelTexts :
            result' = Response(200, {"explanation", "image_url"},
                               clean_html_response(raw), image_url)
       \/ \* the call, or reading response.text, raises
          result' = Response(500, {"error"}, <<>>, None)
    /\ pc' = "done"
    /\ UNCHANGED <<request, config, qi, search_context, image_results, ii, image_url>>
    /\ UNCHANGED <<sanVars, migVars>>

(***************************************************************************)
(* migrate_to_supabase.py: migrate_data                                    *)
(***************************************************************************)
\* the directory icebergs/: file name, whether json.load succeeds, and the
\* list of layers the file holds ('layer' and 'text' may be missing or empty)
Layer(name, texts) == [layer |-> name, entries |-> [i \in 1..Len(texts) |-> [text |-> texts[i]]]]

ICEBERG_DIR ==
    {[name |-> <<"a", "_", "b", ".", "j", "s", "o", "n">>, parses |-> TRUE,
      data |-> <<Layer("Tip", <<"x", "">>), Layer(NoKey, <<"y">>), Layer("Deep", <<>>)>>],
     [name |-> <<"a", " ", "b", ".", "j", "s", "o", "n">>, parses |-> TRUE,
      data |-> <<Layer("Top", <<"z">>)>>],
     [name |-> <<"c", ".", "j", "s", "o", "n">>, parses |-> FALSE, data |-> <<>>],
     [name |-> <<"n", ".", "t", "x", "t">>, parses |-> FALSE, data |-> <<>>]}

\* f.endswith('.json')
endswith_json(f) ==
    LET suffix == <<".", "j", "s", "o", "n">>
    IN  Len(f) >= Len(suffix) /\ SubSeq(f, Len(f) - Len(suffix) + 1, Len(f)) = suffix

\* json_files
json_files == {f \in ICEBERG_DIR : endswith_json(f.name)}

\* os.path.splitext(file_name)[0].replace('_', ' ')
chart_name_of(file_name) ==
    LET dots == {i \in 2..Len(file_name) : file_name[i] = "."}
        root == IF dots = {} THEN file_name ELSE SubSeq(file_name, 1, SetMax(dots) - 1)
    IN  [i \in 1..Len(root) |-> IF root[i] = "_" THEN " " ELSE root[i]]

\* the existence check that never finds a chart
chart_never_exists(charts, name) == FALSE

\* existing_chart_res.data: the select by name found a row
chart_exists(charts, name) == \E c \in charts : c.name = name

\* entries_to_insert of one layer: the entries whose text is not empty
entries_to_insert(layer_data) ==
    SelectSeq(layer_data.entries, LAMBDA e : Truthy(e.text))

\* lines 51-76: the loop over the layers from layer i on. budget is the number
\* of store calls that succeed before one raises APIError, which ends the
\* processing of the file. st holds the two tables and the id counters.
RECURSIVE insert_layers(_, _, _, _, _)
insert_layers(data, i, chart_id, budget, st) ==
    IF i > Len(data) THEN st
    ELSE IF ~Truthy(data[i].layer) THEN insert_layers(data, i + 1, chart_id, budget, st)
    ELSE IF budget = 0 THEN st
    ELSE
      LET layer_id == st.ids.layers
          row == [id |-> layer_id, chart_id |-> chart_id,
                  layer_name |-> data[i].layer, layer_order |-> i - 1]
          todo == entries_to_insert(data[i])
          st1 == [st EXCEPT !.layers = @ \cup {row}, !.ids.layers = @ + 1]
          rows == {[id |-> st.ids.entries + k - 1, layer_id |-> layer_id,
                    entry_text |-> todo[k].text] : k \in 1..Len(todo)}
          st2 == [st1 EXCEPT !.entries = @ \cup rows, !.ids.entries = @ + Len(todo)]
      IN  IF todo = <<>> THEN insert_layers(data, i + 1, chart_id, budget - 1, st1)
          ELSE IF budget = 1 THEN st1
          ELSE insert_layers(data, i + 1, chart_id, budget - 2, st2)

\* the largest number of store calls one file needs: the select, the chart
\* insert, and a layer insert and an entries insert per layer
MaxCalls == SetMax({2 + 2 * Len(f.data) : f \in ICEBERG_DIR})

MigIdle ==
    /\ iceberg_charts = {} /\ iceberg_layers = {} /\ iceberg_entries = {}
    /\ next_id = [charts |-> 1, layers |-> 1, entries |-> 1]
    /\ run = 0 /\ pending = {} /\ skipped = {}

MigInit == MigIdle

\* line 28: one run of migrate_data starts and lists the directory
StartRun ==
    /\ pc = "idle" /\ sanPc = "idle"
    /\ pending = {}
    /\ run < MaxRuns
    /\ run' = run + 1
    /\ pending' = json_files
    /\ UNCHANGED <<iceberg_charts, iceberg_layers, iceberg_entries, next_id, skipped>>
    /\ UNCHANGED <<sanVars, reqVars>>

\* lines 30-83: the loop body for one file; os.listdir gives no order.
\* skipped holds the chart names reported as "already exists. Skipping."
MigrateFile ==
    /\ pc = "idle" /\ sanPc = "idle"
    /\ \E f \in pending, budget \in 0..MaxCalls :
         LET name == chart_name_of(f.name)
             chart_id == next_id.charts
             st0 == [layers |-> iceberg_layers, entries |-> iceberg_entries,
                     ids |-> [next_id EXCEPT !.charts = @ + 1]]
             st == IF f.parses
                   THEN insert_layers(f.data, 1, chart_id, budget - 2, st0)
                   ELSE st0
         IN  /\ pending' = pending \ {f}
             /\ skipped' = IF budget > 0 /\ chart_exists(iceberg_charts, name)
                           THEN skipped \cup {name} ELSE skipped
             /\ IF budget = 0 \/ chart_exists(iceberg_charts, name) \/ budget = 1
                THEN \* the select raised, the chart exists, or the insert raised
                     UNCHANGED <<iceberg_charts, iceberg_layers, iceberg_entries, next_id>>
                ELSE /\ iceberg_charts' = iceberg_charts \cup {[id |-> chart_id, name |-> name]}
                     /\ iceberg_layers' = st.layers
                     /\ iceberg_entries' = st.entries
                     /\ next_id' = st.ids
    /\ UNCHANGED run
    /\ UNCHANGED <<sanVars, reqVars>>

(***************************************************************************)
(* Sanitizer harness actions                                               *)
(***************************************************************************)
\* the raw text is sanitized
Sanitize ==
    /\ sanPc = "raw"
    /\ once' = clean_html_response(text)
    /\ sanPc' = "once"
    /\ UNCHANGED <<inner, fenced, text, twice>>
    /\ UNCHANGED <<reqVars, migVars>>

\* the sanitized text is sanitized again
SanitizeAgain ==
    /\ sanPc = "once"
    /\ twice' = clean_html_response(once)
    /\ sanPc' = "twice"
    /\ UNCHANGED <<inner, fenced, text, once>>
    /\ UNCHANGED <<reqVars, migVars>>

(***************************************************************************)
(* Specifications                                                          *)
(***************************************************************************)
\* one /api/explain request
Init == ReqInit /\ SanIdle /\ MigIdle
Next == Validate \/ TextSearch \/ ImageSearch \/ Probe \/ Generate
Spec == Init /\ [][Next]_vars

\* the sanitizer applied to enumerated raw texts
InitSan == SanInit /\ ReqIdle /\ MigIdle
NextSan == Sanitize \/ SanitizeAgain
SpecSan == InitSan /\ [][NextSan]_vars

\* sequential runs of the migration
InitMig == MigInit /\ ReqIdle /\ SanIdle
NextMig == StartRun \/ MigrateFile
SpecMig == InitMig /\ [][NextMig]_vars

(***************************************************************************)
(* Properties of /api/explain (checked under Spec)                         *)
(***************************************************************************)
Positions(call) == {i \in 1..Len(calls) : calls[i].call = call}
TextCalls == SelectSeq(calls, LAMBDA c : c.call = "text_search")
ProbeCalls == SelectSeq(calls, LAMBDA c : c.call = "probe")
Validated ==
    /\ chart_name \notin {None, ""} /\ entry_text \notin {None, ""}
    /\ GEMINI_API_KEY # None /\ CUSTOM_SEARCH_API_KEY # None
    /\ CUSTOM_SEARCH_ENGINE_ID # None
Yielding == {i \in 1..Len(TextCalls) : TextCalls[i].found # <<>>}

\* C1: whenever the model is called, the context in its prompt is the
\* sentinel string exactly when all three planned queries were tried and
\* none yielded a snippet; otherwise it is the space-joined snippets of the
\* first query that yielded any, and of no other query.
C1_ContextOfFirstYieldingQuery ==
    \A g \in Positions("generate_content") :
        LET sentinel == "Web search failed or returned no results."
            ctx == IF Yielding = {} THEN sentinel
                   ELSE join(TextCalls[SetMin(Yielding)].found)
        IN  /\ calls[g].arg = prompt(chart_name, entry_text, ctx)
            /\ search_context = ctx
            /\ (ctx = sentinel) <=> (Yielding = {} /\ Len(TextCalls) = 3)
            /\ Yielding # {} => Len(TextCalls) = SetMin(Yielding)

\* a request whose first query failed with a 404, whose second query gave
\* two items (the second without a snippet), and whose prompt was built
\* from them
C1_Witness ==
    /\ pc = "done" /\ result.status = 200
    /\ Len(TextCalls) = 2
    /\ TextCalls[1].status = 404
    /\ TextCalls[2].found = <<"alpha", "">>
    /\ search_context = "alpha "

\* C2 as stated: in a successful response, image_url is null exactly when
\* no probe answered with a 2xx status, and otherwise it is the
\* highest-ranked candidate whose probe answered with a 2xx status.
C2_ImageIsFirst2xxProbe ==
    (pc = "done" /\ result.status = 200) =>
        LET ok == {i \in Positions("probe") :
                      calls[i].status >= 200 /\ calls[i].status <= 299}
        IN  IF ok = {} THEN result.image_url = None
            ELSE result.image_url = calls[SetMin(ok)].arg

\* C2 amended: in a successful response, image_url is null exactly when no
\* candidate's probe answered with status 200 (every candidate that has a
\* link was probed and none answered 200, or the search gave no candidate);
\* otherwise it is the highest-ranked candidate whose probe answered 200.
C2_ImageIsFirst200Probe ==
    (pc = "done" /\ result.status = 200) =>
        LET ok == {i \in Positions("probe") : calls[i].status = 200}
            ProbedNot200(j) ==
                \E i \in Positions("probe") :
                    calls[i].rank = j /\ calls[i].status # 200
        IN  /\ (result.image_url = None) <=> (ok = {})
            /\ ok = {} =>
                 \A j \in 1..Len(image_results) :
                     Truthy(image_results[j].link) => ProbedNot200(j)
            /\ ok # {} =>
                 LET hit == calls[SetMin(ok)]
                 IN  /\ result.image_url = hit.arg
                     /\ hit.arg = image_results[hit.rank].link
                     /\ \A j \in 1..(hit.rank - 1) :
                            Truthy(image_results[j].link) => ProbedNot200(j)

\* a successful response whose image is the second candidate, after the
\* first candidate's probe answered 404
C2_Witness ==
    /\ pc = "done" /\ result.status = 200
    /\ Len(ProbeCalls) = 2
    /\ ProbeCalls[1].status = 404 /\ ProbeCalls[2].status = 200
    /\ result.image_url = image_results[2].link

\* C3: the explanation of a successful response never contains a
\* triple-backtick fence marker.
C3_ExplanationHasNoFence ==
    (pc = "done" /\ result.status = 200) => ~Contains(result.explanation, Backticks)

\* C6: a validated request always reaches the model call, whatever the text
\* searches and the image search come back with: no failure of a search
\* stage ends the request.
C6_SearchFaultsAbsorbed ==
    (pc = "done" /\ Validated) => Positions("generate_content") # {}

\* C7: a validated request ends either with explanation and image_url or
\* with a generation error carrying neither, and in both cases the model was
\* called exactly once.
C7_CompleteOrGenerationError ==
    (pc = "done" /\ Validated) =>
        /\ \/ result.status = 200 /\ result.keys = {"explanation", "image_url"}
           \/ result.status = 500 /\ result.keys = {"error"}
        /\ Cardinality(Positions("generate_content")) = 1

\* C8: when a request field is missing or empty or a key is unset, no
\* outbound call is ever made and the request ends with the 400 error.
C8_MissingInputStopsEarly ==
    ~Validated =>
        /\ calls = <<>>
        /\ pc \in {"start", "done"}
        /\ pc = "done" => (result.status = 400 /\ result.keys = {"error"})

\* a complete request with only the search-engine identifier unset, refused
C8_Witness ==
    /\ pc = "done" /\ result.status = 400
    /\ chart_name = "Conspiracy Iceberg" /\ entry_text = "Flat Earth"
    /\ GEMINI_API_KEY # None /\ CUSTOM_SEARCH_API_KEY # None
    /\ CUSTOM_SEARCH_ENGINE_ID = None

\* the planned queries, in the order of the specification
PlannedQueries ==
    << "\"" \o entry_text \o "\" meaning in \"" \o chart_name \o "\" iceberg chart",
       "\"" \o entry_text \o "\" iceberg explanation",
       "\"" \o entry_text \o "\" lore" >>

\* the text stage is over: a query yielded snippets or all three were tried
TextStageOver(n) ==
    LET T == SelectSeq(SubSeq(calls, 1, n), LAMBDA c : c.call = "text_search")
    IN  Len(T) = 3 \/ \E i \in 1..Len(T) : T[i].found # <<>>

\* the image stage is over: the search was made, and a probe answered 200
\* or every candidate with a link was probed
ImageStageOver(n) ==
    \E s \in 1..n :
        /\ calls[s].call = "image_search"
        /\ \/ \E i \in (s + 1)..n : calls[i].call = "probe" /\ calls[i].status = 200
           \/ \A j \in 1..Len(calls[s].found) :
                  Truthy(calls[s].found[j]) =>
                      \E i \in (s + 1)..n : calls[i].call = "probe" /\ calls[i].rank = j

C4_Idempotent ==
    /\ sanPc = "twice" => twice = once
    /\ (sanPc \in {"once", "twice"} /\ ~Contains(text, Backticks)) => once = text

\* a fenced text whose content is itself a fenced text, sanitized twice
C4_Witness ==
    /\ sanPc = "twice" /\ fenced
    /\ Contains(inner, FenceOpenHtml) /\ Contains(inner, FenceClose)
    /\ once # text /\ once # <<>>

\* t is c without the whitespace at its two ends
IsTrimmed(t, c) ==
    \E a \in 0..Len(c) : \E b \in a..Len(c) :
        /\ t = SubSeq(c, a + 1, b)
        /\ \A i \in 1..a : c[i] \in {" ", "\n", "\t", "\r"}
        /\ \A i \in (b + 1)..Len(c) : c[i] \in {" ", "\n", "\t", "\r"}
        /\ t # <<>> => /\ t[1] \notin {" ", "\n", "\t", "\r"}
                       /\ t[Len(t)] \notin {" ", "\n", "\t", "\r"}

\* C5 as stated: the sanitizer returns the stripped content of an HTML
\* fence, whatever the content is.
C5_RoundTrip ==
    (sanPc = "once" /\ fenced) => IsTrimmed(once, inner)

\* C5 amended: the sanitizer returns the stripped content of an HTML fence
\* when the content holds no newline followed by three backticks.
C5_RoundTripWithoutInnerClose ==
    (sanPc = "once" /\ fenced /\ ~Contains(inner, FenceClose)) => IsTrimmed(once, inner)

\* a fenced content with whitespace around it and a fence marker inside it,
\* sanitized
C5_Witness ==
    /\ sanPc = "once" /\ fenced
    /\ ~Contains(inner, FenceClose)
    /\ Contains(inner, Backticks)
    /\ Len(inner) > 0 /\ inner[1] = " " /\ inner[Len(inner)] = "\n"
    /\ once # <<>>

(***************************************************************************)
(* Properties of the migration (checked under SpecMig)                     *)
(***************************************************************************)
LayersOf(chart_id, layers) == {l \in layers : l.chart_id = chart_id}
EntriesOf(chart_id, layers, entries) ==
    {e \in entries : \E l \in LayersOf(chart_id, layers) : e.layer_id = l.id}

UniqueChartNames ==
    \A c, d \in iceberg_charts : c.name = d.name => c = d

\* a chart that exists keeps its row, its layers and its entries as they are
ExistingChartsUntouched ==
    \A c \in iceberg_charts :
        /\ c \in iceberg_charts'
        /\ LayersOf(c.id, iceberg_layers') = LayersOf(c.id, iceberg_layers)
        /\ EntriesOf(c.id, iceberg_layers', iceberg_entries')
               = EntriesOf(c.id, iceberg_layers, iceberg_entries)

\* C10: over any number of sequential runs the store holds at most one
\* chart per chart name, and once a chart's row exists no later step adds a
\* layer or an entry to it: a chart left incomplete stays incomplete.
C10_NoDuplicateNoCompletion ==
    []UniqueChartNames /\ [][ExistingChartsUntouched]_vars

\* the second run is over, it skipped the chart "a b" as existing, and the
\* chart is still there without any layer
C10_Witness ==
    /\ run = 2 /\ pending = {}
    /\ <<"a", " ", "b">> \in skipped
    /\ \E c \in iceberg_charts :
           /\ c.name = <<"a", " ", "b">>
           /\ LayersOf(c.id, iceberg_layers) = {}

====
